---- MODULE Spec2Model ----
(***************************************************************************)
(* Model of backend/server.py: the message relay (send_message,           *)
(* get_messages), the live channel handler (websocket_endpoint) with the  *)
(* process-wide active_connections registry, and the login endpoint.      *)
(*                                                                         *)
(* Every coroutine is a process whose steps are the stretches of code     *)
(* between two awaits: asyncio runs such a stretch without interleaving.  *)
(***************************************************************************)
EXTENDS Integers, Sequences, FiniteSets, TLC

\* ------------------------------------------------------------------ bounds
MaxSends == 2       \* number of send_message requests
MaxChans == 2       \* number of websocket connections
MaxPings == 2       \* inbound text frames a client writes on one connection
MaxLogins == 2      \* number of login requests
MaxOld == 1         \* messages the store holds when the server starts

\* to_list(1000) of get_messages, scaled down so that a history longer than
\* the cap is reachable.
FetchCap == 2

Sends == 1..MaxSends
Chans == 1..MaxChans
Logins == 1..MaxLogins
MaxClock == MaxSends - 1

\* USERS: the credential table, password -> identity.
USERS == [alphabravocharlie |-> "Alpha", bravoalphacharlie |-> "Bravo"]

Identities == {USERS[p] : p \in DOMAIN USERS}
Passwords == DOMAIN USERS \cup {"wrongpassword"}
Contents == {"CIPHERTEXT_1"}

VARIABLES
    now,                 \* datetime.utcnow()
    db_messages,         \* db.messages: the documents of the collection
    db_users,            \* db.users: number of documents per username
    active_connections,  \* the registry, as the set of its (key, value) items
    send,                \* send_message coroutines
    ws,                  \* websocket_endpoint coroutines
    peer,                \* per connection: the transport as the server sees it
    sent,                \* per connection: text frames the client has written
    nread,               \* per connection: how many of them receive_text returned
    outbox,              \* per connection: frames send_text has written
    fetched,             \* the last get_messages response
    login                \* login coroutines

vars == <<now, db_messages, db_users, active_connections, send, ws, peer,
          sent, nread, outbox, fetched, login>>

relayVars == <<now, db_messages, active_connections, send, ws, peer, sent,
               nread, outbox, fetched>>
loginVars == <<db_users, login>>

\* ---------------------------------------------------------------- Message
\* class Message: id and timestamp come from the default factories.
Message(id, sender, receiver, content, t) ==
    [id |-> id, sender |-> sender, receiver |-> receiver,
     encrypted_content |-> content, timestamp |-> t]

NoMessage == Message(0, "", "", "", 0)

\* The keyword arguments BaseModel.dict() accepts; any other keyword makes
\* the call raise TypeError.
DictKeywords == {"include", "exclude", "by_alias", "skip_defaults",
                 "exclude_unset", "exclude_defaults", "exclude_none"}

dict_raises(kwargs) == kwargs \ DictKeywords # {}

\* msg_obj.dict(): the fields of the model as a document.
Message_dict(msg) == msg

\* ---------------------------------------------------------------- registry
\* message.receiver in active_connections
Registered(user) == \E item \in active_connections : item[1] = user

\* active_connections[user]
Lookup(user) == (CHOOSE item \in active_connections : item[1] = user)[2]

\* Mutant of Register: an identity that has an entry keeps it.
Register_KeepsFirst(conns, user, websocket) ==
    IF \E item \in conns : item[1] = user
    THEN conns
    ELSE conns \cup {<<user, websocket>>}

\* active_connections[user] = websocket
Register(conns, user, websocket) ==
    {item \in conns : item[1] # user} \cup {<<user, websocket>>}

\* Mutant of Pop: the entry is left in place.
Pop_KeepsEntry(conns, user) == conns

\* active_connections.pop(user, None)
Pop(conns, user) == {item \in conns : item[1] # user}

\* ------------------------------------------------------------ get_messages
Min(a, b) == IF a < b THEN a ELSE b

\* Mutant of Find: the query matches the sender only.
Find_SenderOnly(user) == {m \in db_messages : m.sender = user}

\* find({"$or": [{"sender": user}, {"receiver": user}]})
Find(user) == {m \in db_messages : m.sender = user \/ m.receiver = user}

\* The documents of `docs` no other document of `docs` sorts before.
Earliest(docs) ==
    {m \in docs : \A other \in docs : m.timestamp <= other.timestamp}

\* Mutant of Sort: the documents in any order (the sort left out).
Sort_Unordered(docs) ==
    {s \in [1..Cardinality(docs) -> docs] :
        \A j, k \in 1..Cardinality(docs) : j # k => s[j] # s[k]}

\* .sort("timestamp", 1): every arrangement of the documents in ascending
\* timestamp order.  The store does not define the order of documents
\* whose timestamps are equal, so each of their orders is a possible one.
RECURSIVE Sort(_)
Sort(docs) ==
    IF docs = {}
    THEN {<<>>}
    ELSE UNION {{<<m>> \o rest : rest \in Sort(docs \ {m})} :
                  m \in Earliest(docs)}

\* Mutant of to_list: the whole cursor, with no cap.
to_list_All(s, n) == s

\* .to_list(n)
to_list(s, n) == SubSeq(s, 1, Min(n, Len(s)))

\* The responses get_messages(user) can give in the current state.
get_messages(user) == {to_list(s, FetchCap) : s \in Sort(Find(user))}

\* -------------------------------------------------------------------- Init
IdleSend == [pc |-> "idle", msg |-> NoMessage, push |-> "none", websocket |-> 0]
IdleSocket == [pc |-> "idle", user |-> "", data |-> ""]
NoResponse == [status |-> 0, body |-> [detail |-> "none"]]
IdleLogin == [pc |-> "idle", password |-> "", response |-> NoResponse]
NoFetch == [user |-> "", messages |-> <<>>]

\* The collections outlive the process: a history of messages and users
\* written by earlier runs may be there when the server starts.
OldMessages(n) ==
    {Message(0 - k, "Alpha", "Bravo", "CIPHERTEXT_0", 0) : k \in 1..n}

Start(messages, users) ==
    /\ now = 0
    /\ db_messages = messages
    /\ db_users = users
    /\ active_connections = {}
    /\ send = [i \in Sends |-> IdleSend]
    /\ ws = [c \in Chans |-> IdleSocket]
    /\ peer = [c \in Chans |-> "none"]
    /\ sent = [c \in Chans |-> <<>>]
    /\ nread = [c \in Chans |-> 0]
    /\ outbox = [c \in Chans |-> <<>>]
    /\ fetched = NoFetch
    /\ login = [l \in Logins |-> IdleLogin]

NoUsers == [u \in Identities |-> 0]

Init == Start(OldMessages(MaxOld), NoUsers)

ChannelInit == Start({}, NoUsers)

LoginInit == \E users \in [Identities -> 0..1] : Start({}, users)

\* The clock of datetime.utcnow advances between steps.
Tick ==
    /\ now < MaxClock
    /\ now' = now + 1
    /\ UNCHANGED <<db_messages, db_users, active_connections, send, ws, peer,
                   sent, nread, outbox, fetched, login>>

\* ------------------------------------------------------------ send_message
\* Lines 107-116 up to the await: msg_obj is built, with a fresh id and the
\* current time, and insert_one is awaited.  Requests are numbered in the
\* order they arrive and the number stands for the uuid4.
SendCreate(i, sender, receiver, content) ==
    /\ send[i].pc = "idle"
    /\ \A j \in Sends : j < i => send[j].pc # "idle"
    /\ send' = [send EXCEPT ![i] =
                  [pc |-> "insert_one", push |-> "none", websocket |-> 0,
                   msg |-> Message(i, sender, receiver, content, now)]]
    /\ UNCHANGED <<now, db_messages, db_users, active_connections, ws, peer,
                   sent, nread, outbox, fetched, login>>

\* Mutant of InsertOne: the write is made twice and the store holds a second
\* document for the message.
InsertOne_Twice(i) ==
    /\ send[i].pc = "insert_one"
    /\ db_messages' = db_messages \cup
          {Message_dict(send[i].msg),
           [Message_dict(send[i].msg) EXCEPT !.id = 0 - MaxOld - i]}
    /\ send' = [send EXCEPT ![i].pc = "inserted"]
    /\ UNCHANGED <<now, db_users, active_connections, ws, peer, sent, nread,
                   outbox, fetched, login>>

\* Mutant of InsertOne: the await returns and no document was written.
InsertOne_NotWritten(i) ==
    /\ send[i].pc = "insert_one"
    /\ send' = [send EXCEPT ![i].pc = "inserted"]
    /\ UNCHANGED <<now, db_messages, db_users, active_connections, ws, peer,
                   sent, nread, outbox, fetched, login>>

\* insert_one(msg_obj.dict()) writes the document.
InsertOne(i) ==
    /\ send[i].pc = "insert_one"
    /\ db_messages' = db_messages \cup {Message_dict(send[i].msg)}
    /\ send' = [send EXCEPT ![i].pc = "inserted"]
    /\ UNCHANGED <<now, db_users, active_connections, ws, peer, sent, nread,
                   outbox, fetched, login>>

\* The frame of lines 122-125.
NewMessageFrame(msg) == [type |-> "new_message", message |-> Message_dict(msg)]

\* Lines 121-126 raise: building the frame calls dict(default=str), or the
\* write to the channel fails.
PushRaises(websocket) == dict_raises({"default"}) \/ peer[websocket] # "open"

\* Which way lines 119-129 go for a receiver.
PushOutcome(receiver) ==
    IF ~Registered(receiver) THEN "absent"
    ELSE IF PushRaises(Lookup(receiver)) THEN "raised"
    ELSE "written"

\* Mutant of Push: the cleanup after a failed push empties the registry.
Push_ClearsRegistry(msg) ==
    /\ active_connections' =
          IF PushOutcome(msg.receiver) = "raised" THEN {}
          ELSE active_connections
    /\ outbox' = outbox

\* Lines 119-129: the push to the receiver's registered channel and the
\* cleanup when it raises.
Push(msg) ==
    LET outcome == PushOutcome(msg.receiver) IN
      /\ active_connections' =
            IF outcome = "raised"
            THEN Pop(active_connections, msg.receiver)
            ELSE active_connections
      /\ outbox' =
            IF outcome = "written"
            THEN [outbox EXCEPT ![Lookup(msg.receiver)] =
                    Append(@, NewMessageFrame(msg))]
            ELSE outbox

\* Mutant of InsertFails: the push is made before the failure of the write
\* is raised.
InsertFails_AfterPush(i) ==
    /\ send[i].pc = "insert_one"
    /\ Push(send[i].msg)
    /\ send' = [send EXCEPT ![i].pc = "StorageError"]
    /\ UNCHANGED <<now, db_messages, db_users, ws, peer, sent, nread, fetched,
                   login>>

\* insert_one raises: the exception leaves send_message at line 116.
InsertFails(i) ==
    /\ send[i].pc = "insert_one"
    /\ send' = [send EXCEPT ![i].pc = "StorageError"]
    /\ UNCHANGED <<now, db_messages, db_users, active_connections, ws, peer,
                   sent, nread, outbox, fetched, login>>

\* The connection lines 119-121 take from the registry for a receiver; 0
\* when the receiver has no entry.
PushTarget(receiver) == IF Registered(receiver) THEN Lookup(receiver) ELSE 0

\* Lines 119-131, run when the awaited insert_one has returned; msg_obj is
\* the response.
Notify(i) ==
    /\ send[i].pc = "inserted"
    /\ Push(send[i].msg)
    /\ send' = [send EXCEPT ![i].pc = "returned",
                            ![i].push = PushOutcome(send[i].msg.receiver),
                            ![i].websocket = PushTarget(send[i].msg.receiver)]
    /\ UNCHANGED <<now, db_messages, db_users, ws, peer, sent, nread, fetched,
                   login>>

\* ------------------------------------------------------------ get_messages
Fetch(user) ==
    /\ \E messages \in get_messages(user) :
          fetched' = [user |-> user, messages |-> messages]
    /\ UNCHANGED <<now, db_messages, db_users, active_connections, send, ws,
                   peer, sent, nread, outbox, login>>

\* ------------------------------------------------------ websocket_endpoint
\* Lines 136-137: a client has opened connection c for `user`; accept()
\* returns, the connection is registered and the handler awaits
\* receive_text().  Connections are numbered in the order they are accepted.
Accept(c, user) ==
    /\ ws[c].pc = "idle"
    /\ \A d \in Chans : d < c => ws[d].pc # "idle"
    /\ active_connections' = Register(active_connections, user, c)
    /\ ws' = [ws EXCEPT ![c] = [pc |-> "receive_text", user |-> user,
                                data |-> ""]]
    /\ peer' = [peer EXCEPT ![c] = "open"]
    /\ UNCHANGED <<now, db_messages, db_users, send, sent, nread, outbox,
                   fetched, login>>

\* The remote peer closes the connection, or the transport breaks.
PeerClose(c) ==
    /\ peer[c] = "open"
    /\ peer' = [peer EXCEPT ![c] = "closed"]
    /\ UNCHANGED <<now, db_messages, db_users, active_connections, send, ws,
                   sent, nread, outbox, fetched, login>>

\* The payloads a client writes, by their place on the connection.
TextFrame(k) == IF k % 2 = 1 THEN "hello" ELSE "test"

\* The client writes a text frame on its open connection.
ClientText(c, data) ==
    /\ ws[c].pc \in {"receive_text", "send_text"}
    /\ peer[c] = "open"
    /\ Len(sent[c]) < MaxPings
    /\ sent' = [sent EXCEPT ![c] = Append(@, data)]
    /\ UNCHANGED <<now, db_messages, db_users, active_connections, send, ws,
                   peer, nread, outbox, fetched, login>>

\* Line 142: receive_text() returns the next inbound frame; the handler
\* awaits the send_text of line 144.
ReceiveText(c) ==
    /\ ws[c].pc = "receive_text"
    /\ nread[c] < Len(sent[c])
    /\ ws' = [ws EXCEPT ![c].pc = "send_text", ![c].data = sent[c][nread[c] + 1]]
    /\ nread' = [nread EXCEPT ![c] = @ + 1]
    /\ UNCHANGED <<now, db_messages, db_users, active_connections, send, peer,
                   sent, outbox, fetched, login>>

\* Mutant of PongFrame: the payload is not echoed.
PongFrame_NoEcho(data) == [type |-> "pong", data |-> ""]

\* json.dumps({"type": "pong", "data": data})
PongFrame(data) == [type |-> "pong", data |-> data]

\* Line 144: the pong is written and the loop awaits the next frame.
SendPong(c) ==
    /\ ws[c].pc = "send_text"
    /\ peer[c] = "open"
    /\ outbox' = [outbox EXCEPT ![c] = Append(@, PongFrame(ws[c].data))]
    /\ ws' = [ws EXCEPT ![c].pc = "receive_text"]
    /\ UNCHANGED <<now, db_messages, db_users, active_connections, send, peer,
                   sent, nread, fetched, login>>

\* Mutant of Closing: the handler returns without the cleanup.
Closing_KeepsEntry(c) ==
    /\ ws' = [ws EXCEPT ![c].pc = "closed"]
    /\ UNCHANGED <<now, db_messages, db_users, active_connections, send, peer,
                   sent, nread, outbox, fetched, login>>

\* Lines 145-148: both except clauses pop the handler's user and the
\* handler returns.
Closing(c) ==
    /\ active_connections' = Pop(active_connections, ws[c].user)
    /\ ws' = [ws EXCEPT ![c].pc = "closed"]
    /\ UNCHANGED <<now, db_messages, db_users, send, peer, sent, nread, outbox,
                   fetched, login>>

\* receive_text() raises WebSocketDisconnect: the peer is gone and no
\* inbound frame is left.
ReceiveRaises(c) ==
    /\ ws[c].pc = "receive_text"
    /\ nread[c] = Len(sent[c])
    /\ peer[c] = "closed"
    /\ Closing(c)

\* send_text() of the pong raises: the connection broke after the read.
SendPongRaises(c) ==
    /\ ws[c].pc = "send_text"
    /\ peer[c] = "closed"
    /\ Closing(c)

\* ------------------------------------------------------------------- login
\* class LoginResponse: success, token and message are required, user is
\* optional.  Construction from keyword arguments that lack a required
\* field raises ValidationError, which the framework answers with 500.
LoginResponseRequired == {"success", "token", "message"}

LoginResponse(kwargs) ==
    IF LoginResponseRequired \subseteq DOMAIN kwargs
    THEN [status |-> 200, body |-> kwargs]
    ELSE [status |-> 500, body |-> [detail |-> "Internal Server Error"]]

\* Lines 68-72 and 86-90: a known password awaits find_one; an unknown one
\* returns LoginResponse(success=False, message="Invalid password").
LoginStart(l, password) ==
    /\ login[l].pc = "idle"
    /\ \A k \in Logins : k < l => login[k].pc # "idle"
    /\ IF password \in DOMAIN USERS
       THEN login' = [login EXCEPT ![l] =
                [pc |-> "find_one", password |-> password,
                 response |-> NoResponse]]
       ELSE login' = [login EXCEPT ![l] =
                [pc |-> "done", password |-> password,
                 response |-> LoginResponse(
                     [success |-> FALSE, message |-> "Invalid password"])]]
    /\ UNCHANGED <<relayVars, db_users>>

\* Lines 80-85.
Welcome(l, username) ==
    LoginResponse([success |-> TRUE, user |-> username, token |-> l,
                   message |-> "Welcome"])

\* Lines 72-73: find_one returns; a missing user awaits insert_one.
LoginFindOne(l) ==
    /\ login[l].pc = "find_one"
    /\ LET username == USERS[login[l].password] IN
         IF db_users[username] = 0
         THEN login' = [login EXCEPT ![l].pc = "insert_one"]
         ELSE login' = [login EXCEPT ![l].pc = "done",
                                     ![l].response = Welcome(l, username)]
    /\ UNCHANGED <<relayVars, db_users>>

\* Lines 74-85: insert_one writes the User document.
LoginInsertOne(l) ==
    /\ login[l].pc = "insert_one"
    /\ LET username == USERS[login[l].password] IN
         /\ db_users' = [db_users EXCEPT ![username] = @ + 1]
         /\ login' = [login EXCEPT ![l].pc = "done",
                                   ![l].response = Welcome(l, username)]
    /\ UNCHANGED relayVars

\* -------------------------------------------------------------------- Next
SendNext ==
    \/ \E i \in Sends, sender \in Identities, receiver \in Identities,
          content \in Contents : SendCreate(i, sender, receiver, content)
    \/ \E i \in Sends : InsertOne(i)
    \/ \E i \in Sends : InsertFails(i)
    \/ \E i \in Sends : Notify(i)

\* Connections come and go; no client writes a text frame.
LifecycleNext ==
    \/ \E c \in Chans, user \in Identities : Accept(c, user)
    \/ \E c \in Chans : PeerClose(c)
    \/ \E c \in Chans : ReceiveRaises(c)

PingNext ==
    \/ \E c \in Chans : \E data \in {TextFrame(Len(sent[c]) + 1)} :
          ClientText(c, data)
    \/ \E c \in Chans : ReceiveText(c)
    \/ \E c \in Chans : SendPong(c)
    \/ \E c \in Chans : SendPongRaises(c)

FetchNext == \E user \in Identities : Fetch(user)

LoginNext ==
    \/ \E l \in Logins, password \in Passwords : LoginStart(l, password)
    \/ \E l \in Logins : LoginFindOne(l)
    \/ \E l \in Logins : LoginInsertOne(l)

\* The relay: sends against connections that come and go.
Next == SendNext \/ LifecycleNext

Spec == Init /\ [][Next]_vars

\* The live channel handlers alone, with their health-check traffic.
ChannelNext == LifecycleNext \/ PingNext

ChannelSpec == ChannelInit /\ [][ChannelNext]_vars

\* The history: sends, fetches and the clock.
StoreNext == SendNext \/ FetchNext \/ Tick

StoreSpec == Init /\ [][StoreNext]_vars

\* The login endpoint.
LoginSpec == LoginInit /\ [][LoginNext]_vars

\* ================================================================= claims
Returned(i) == send[i].pc = "returned"

Parties(msg) == {msg.sender, msg.receiver}

\* `messages` holds msg exactly once, with its id, sender, receiver and
\* encrypted_content.
ContainsOnce(messages, msg) ==
    /\ Cardinality({k \in DOMAIN messages : messages[k].id = msg.id}) = 1
    /\ \A k \in DOMAIN messages :
          messages[k].id = msg.id =>
             /\ messages[k].sender = msg.sender
             /\ messages[k].receiver = msg.receiver
             /\ messages[k].encrypted_content = msg.encrypted_content

\* C1 as stated: once send has returned, every response of fetch(sender)
\* and of fetch(receiver) holds the sent message exactly once, whatever
\* else the store holds.
C1_FetchHoldsSent ==
    \A i \in Sends :
       Returned(i) =>
          \A user \in Parties(send[i].msg) :
             \A messages \in get_messages(user) :
                ContainsOnce(messages, send[i].msg)

\* C1 amended: the same, for a fetch made while the store holds no more
\* messages of that identity than the cap of to_list.
C1_FetchHoldsSentWithinCap ==
    \A i \in Sends :
       Returned(i) =>
          \A user \in Parties(send[i].msg) :
             Cardinality(Find(user)) <= FetchCap =>
                \A messages \in get_messages(user) :
                   ContainsOnce(messages, send[i].msg)

\* A send between two identities has returned and each of them has as many
\* messages as the cap lets through, the sent one among others.
C1_Witness ==
    \E i \in Sends :
       /\ Returned(i)
       /\ send[i].msg.sender # send[i].msg.receiver
       /\ \A user \in Parties(send[i].msg) :
             /\ Cardinality(Find(user)) = FetchCap
             /\ \E messages \in get_messages(user) :
                   ContainsOnce(messages, send[i].msg)

Ordered(messages) ==
    \A j, k \in DOMAIN messages :
       j < k => messages[j].timestamp <= messages[k].timestamp

\* C7: every fetch response is in non-decreasing timestamp order, also
\* when sends that took their timestamps earlier write later.
C7_FetchOrdered == Ordered(fetched.messages)

\* A response with two timestamps was given while a send that took an
\* older timestamp than the last fetched one had not yet written.
C7_Witness ==
    /\ Len(fetched.messages) = 2
    /\ fetched.messages[1].timestamp < fetched.messages[2].timestamp
    /\ \E i \in Sends :
          /\ send[i].pc = "insert_one"
          /\ send[i].msg.timestamp < fetched.messages[2].timestamp

\* Where new_message frames stand in the frames written to connection c.
Notified(c) == {k \in DOMAIN outbox[c] : outbox[c][k].type = "new_message"}

\* No new_message frame for the message of send i was written anywhere.
NeverNotified(i) ==
    \A c \in Chans : \A k \in Notified(c) : outbox[c][k].message.id # i

\* The handler of connection c is in its loop (the state Open).
Open(c) == ws[c].pc \in {"receive_text", "send_text"}

\* C2: a send whose store write fails ends there: the step that fails
\* changes neither the registry nor any channel, its message is in no
\* frame, and every new_message frame written carries a stored message.
C2_FailedWriteFailsSend ==
    /\ [](/\ \A c \in Chans : \A k \in Notified(c) :
                outbox[c][k].message \in db_messages
          /\ \A i \in Sends :
                send[i].pc = "StorageError" =>
                   /\ NeverNotified(i)
                   /\ send[i].msg \notin db_messages)
    /\ [][\A i \in Sends :
             (send[i].pc = "insert_one" /\ send'[i].pc = "StorageError") =>
                UNCHANGED <<active_connections, outbox, db_messages>>]_vars

\* The write of a send failed while its receiver had a registered, open
\* connection to push to.
C2_Witness ==
    \E i \in Sends :
       /\ send[i].pc = "StorageError"
       /\ Registered(send[i].msg.receiver)
       /\ Open(Lookup(send[i].msg.receiver))
       /\ peer[Lookup(send[i].msg.receiver)] = "open"

\* C3: when send reaches its push while the receiver's connection is
\* registered, Open and working, that step writes exactly the frame
\* {type: "new_message", message: M} to it, and M is among the stored
\* messages of the receiver that fetch(receiver) draws on.
C3_OpenReceiverGetsFrame ==
    [][\A i \in Sends :
          LET receiver == send[i].msg.receiver IN
            (/\ send[i].pc = "inserted"
             /\ send'[i].pc = "returned"
             /\ Registered(receiver)
             /\ Open(Lookup(receiver))
             /\ peer[Lookup(receiver)] = "open")
            => /\ outbox'[Lookup(receiver)] =
                     Append(outbox[Lookup(receiver)],
                            NewMessageFrame(send[i].msg))
               /\ send[i].msg \in Find(receiver)]_vars

\* C4: a push that raises removes the receiver's entry and the send still
\* returns its stored message; every send whose write succeeded returns
\* with its message stored, whatever became of the receiver's entry.
C4_FailedPushStillSucceeds ==
    /\ [][\A i \in Sends :
             LET receiver == send[i].msg.receiver IN
               (send[i].pc = "inserted" /\ send'[i].pc # "inserted") =>
                  /\ send'[i].pc = "returned"
                  /\ send'[i].msg = send[i].msg
                  /\ send[i].msg \in db_messages'
                  /\ (Registered(receiver) /\ PushRaises(Lookup(receiver)))
                        => \A item \in active_connections' :
                              item[1] # receiver]_vars
    /\ [](\A i \in Sends :
             /\ Returned(i) => send[i].msg \in db_messages
             /\ send[i].pc = "inserted" => ENABLED Notify(i))

\* A push raised and its send returned; a later send to the same receiver,
\* which found the entry gone, returned with its message stored too.
C4_Witness ==
    \E i, j \in Sends :
       /\ i # j
       /\ Returned(i) /\ send[i].push = "raised"
       /\ Returned(j) /\ send[j].push = "absent"
       /\ send[j].msg.receiver = send[i].msg.receiver
       /\ {send[i].msg, send[j].msg} \subseteq db_messages

\* Some response of fetch(user) holds the message with this id.
InEveryFetch(user, id) ==
    \A messages \in get_messages(user) :
       \E k \in DOMAIN messages : messages[k].id = id

\* C5 as stated: a send that found no entry for its receiver returned, its
\* message is stored and in every later fetch(receiver), and no
\* new_message frame for it is in any channel.
C5_AbsentReceiver ==
    \A i \in Sends :
       send[i].push = "absent" =>
          /\ Returned(i)
          /\ send[i].msg \in db_messages
          /\ InEveryFetch(send[i].msg.receiver, i)
          /\ NeverNotified(i)

\* C5 amended: the same, the fetch being one made while the store holds
\* no more messages of the receiver than the cap of to_list.
C5_AbsentReceiverWithinCap ==
    \A i \in Sends :
       send[i].push = "absent" =>
          /\ Returned(i)
          /\ send[i].msg \in db_messages
          /\ Cardinality(Find(send[i].msg.receiver)) <= FetchCap
                => InEveryFetch(send[i].msg.receiver, i)
          /\ NeverNotified(i)

\* A send found no entry and returned; the receiver has since opened a
\* connection, which is registered and has been written nothing.
C5_Witness ==
    \E i \in Sends : \E c \in Chans :
       /\ send[i].push = "absent"
       /\ ws[c].user = send[i].msg.receiver
       /\ <<ws[c].user, c>> \in active_connections
       /\ Open(c) /\ peer[c] = "open"
       /\ outbox[c] = <<>>
       /\ InEveryFetch(send[i].msg.receiver, i)

\* The connections accepted for `user` so far.
Accepted(user) == {c \in Chans : ws[c].pc # "idle" /\ ws[c].user = user}

\* C6: the registry holds at most one connection per identity; accepting
\* a connection makes it the one lookup returns, and lookup never returns
\* a connection that a later one of the same identity has superseded.
C6_Supersession ==
    /\ [](/\ \A a, b \in active_connections : a[1] = b[1] => a = b
          /\ \A item \in active_connections :
                \A c \in Accepted(item[1]) : c <= item[2])
    /\ [][\A c \in Chans :
             (ws[c].pc = "idle" /\ ws'[c].pc # "idle") =>
                <<ws'[c].user, c>> \in active_connections']_vars

\* Two connections of one identity were accepted; the first is still Open
\* and the registry holds the second.
C6_Witness ==
    \E a, b \in Chans :
       /\ a < b
       /\ ws[a].user = ws[b].user
       /\ Open(a) /\ Open(b)
       /\ <<ws[b].user, b>> \in active_connections

\* The pong frames written to connection c.
Pongs(c) == SelectSeq(outbox[c], LAMBDA f : f.type = "pong")

\* The answers to the first n frames the client wrote on connection c.
Answers(c, n) == [k \in 1..n |-> [type |-> "pong", data |-> sent[c][k]]]

\* The step the handler of connection c takes when its await completes or
\* raises.
Handler(c) ==
    ReceiveText(c) \/ SendPong(c) \/ ReceiveRaises(c) \/ SendPongRaises(c)

\* The event loop resumes every handler whose await is over.
HandlerFairness == \A c \in Chans : WF_vars(Handler(c))

FairChannelSpec == ChannelSpec /\ HandlerFairness

\* C8: a handler leaves Open only for Closed, and then no entry is left
\* for its identity; a closed handler takes no further step; and no
\* handler stays Open once its peer is gone, be it in receive_text or in
\* the write of a pong: a closed connection stays closed, so from some
\* point on no Open handler has one.
C8_OpenLeavesOnlyToClosed ==
    /\ [][\A c \in Chans :
             /\ (Open(c) /\ ~Open(c)') =>
                   /\ ws'[c].pc = "closed"
                   /\ \A item \in active_connections' : item[1] # ws[c].user
             /\ ws[c].pc = "closed" =>
                   /\ ws'[c] = ws[c]
                   /\ outbox'[c] = outbox[c]
                   /\ nread'[c] = nread[c]
             /\ peer[c] = "closed" => peer'[c] = "closed"]_vars
    /\ <>[](\A c \in Chans : ~(Open(c) /\ peer[c] = "closed"))

\* A handler went to Closed from the write of a pong: it has read a frame
\* it never answered, and its identity has no entry.
C8_Witness ==
    \E c \in Chans :
       /\ ws[c].pc = "closed"
       /\ nread[c] > Len(Pongs(c))
       /\ ~Registered(ws[c].user)

C10_InvalidPasswordAnswered ==
    \A l \in Logins :
       (login[l].pc = "done" /\ login[l].password \notin DOMAIN USERS) =>
          /\ login[l].response.status = 200
          /\ login[l].response.body.success = FALSE
          /\ login[l].response.body.message = "Invalid password"

\* C11: when the handler of one connection reaches Closed, the registry
\* entries that hold other connections stay: the entry of a later connection
\* of the same identity, still Open, is not removed by the teardown of the
\* connection it superseded.
C11_TeardownKeepsOthers ==
    [][\A a \in Chans :
          (Open(a) /\ ws'[a].pc = "closed") =>
             \A item \in active_connections :
                item[2] # a => item \in active_connections']_vars

\* C12: a send whose receiver has a registered connection that is Open and
\* whose peer is still there leaves the registry as it was.
C12_WorkingPushKeepsRegistry ==
    [][\A i \in Sends :
          (/\ send[i].pc = "inserted"
           /\ send'[i].pc = "returned"
           /\ Registered(send[i].msg.receiver)
           /\ Open(Lookup(send[i].msg.receiver))
           /\ peer[Lookup(send[i].msg.receiver)] = "open") =>
             active_connections' = active_connections]_vars

SendStep(i) == InsertOne(i) \/ InsertFails(i) \/ Notify(i)

\* The event loop resumes every request whose await is over.
SendFairness == \A i \in Sends : WF_vars(SendStep(i))

FairSpec == Spec /\ HandlerFairness /\ SendFairness

\* C14: a send whose push to the receiver's connection fails leaves the
\* receiver unregistered, and the handler of that connection then reaches
\* Closed: no handler stays Open for good once send has removed its entry.
C14_FailedPushClosesHandler ==
    /\ [][\A i \in Sends :
             (send'[i] # send[i] /\ send'[i].push = "raised") =>
                ~(\E item \in active_connections' :
                     item[1] = send[i].msg.receiver)]_vars
    /\ \A c \in Chans :
          (\E i \in Sends : send[i].push = "raised" /\ send[i].websocket = c)
             ~> (ws[c].pc = "closed")

\* C15: a send that returns has added exactly one document to the store, at
\* its insert_one and at no other step, and has written at most one
\* new_message frame, at its push and to the connection the registry held
\* for the receiver at that moment; no other connection gets a frame from
\* it.
C15_OneRecordOneFrame ==
    /\ [](\A i \in Sends :
             Returned(i) =>
                {d \in db_messages : d.id = send[i].msg.id}
                   = {Message_dict(send[i].msg)})
    /\ [][\A i \in Sends :
             send'[i] # send[i] =>
                /\ Cardinality(db_messages') =
                      Cardinality(db_messages) +
                         (IF send'[i].pc = "inserted" THEN 1 ELSE 0)
                /\ db_messages' \subseteq
                      db_messages \cup {Message_dict(send[i].msg)}
                /\ \A c \in Chans :
                      outbox'[c] # outbox[c] =>
                         /\ send'[i].pc = "returned"
                         /\ c = PushTarget(send[i].msg.receiver)
                         /\ outbox'[c] = Append(outbox[c],
                                                NewMessageFrame(send[i].msg))]_vars

\* A send has returned after its push to the receiver's connection, while
\* the sender and the receiver are different identities that both have an
\* Open connection.
C15_Witness ==
    \E i \in Sends : \E a, b \in Chans :
       /\ Returned(i)
       /\ send[i].websocket = b
       /\ Message_dict(send[i].msg) \in db_messages
       /\ a # b /\ Open(a) /\ Open(b)
       /\ ws[a].user = send[i].msg.sender
       /\ ws[b].user = send[i].msg.receiver
       /\ send[i].msg.sender # send[i].msg.receiver

\* The documents of the store that have `user` as sender or as receiver.
Matching(user) ==
    {d \in db_messages : d.sender = user \/ d.receiver = user}

\* C16: the response of a fetch holds only stored messages of which the
\* fetched identity is the sender or the receiver, each once, in ascending
\* timestamp order; it holds min(n, cap) of the n such messages, and none
\* of the messages left out is earlier than one it holds; the fetch leaves
\* the store and the registry as they were.
C16_FetchResult ==
    [][fetched' # fetched =>
          LET user == fetched'.user
              messages == fetched'.messages
          IN /\ \A k \in DOMAIN messages :
                   /\ messages[k] \in db_messages
                   /\ messages[k].sender = user \/ messages[k].receiver = user
             /\ \A j, k \in DOMAIN messages : j # k => messages[j] # messages[k]
             /\ Len(messages) =
                   IF Cardinality(Matching(user)) < FetchCap
                   THEN Cardinality(Matching(user)) ELSE FetchCap
             /\ \A j, k \in DOMAIN messages :
                   j < k => messages[j].timestamp <= messages[k].timestamp
             /\ \A d \in Matching(user) :
                   (\A k \in DOMAIN messages : messages[k] # d) =>
                      \A k \in DOMAIN messages :
                         messages[k].timestamp <= d.timestamp
             /\ db_messages' = db_messages
             /\ active_connections' = active_connections]_vars

\* A fetch has returned as many messages as the cap while the store holds
\* more messages of the identity, sent at different times.
C16_Witness ==
    /\ fetched.user \in Identities
    /\ Len(fetched.messages) = FetchCap
    /\ Cardinality(Matching(fetched.user)) > FetchCap
    /\ \E d, e \in Matching(fetched.user) : d.timestamp # e.timestamp

\* C17: two fetches of the same identity with no write to the store between
\* them, that is, made while the store is in one and the same state, return
\* the same messages in the same order, also when messages have the same
\* timestamp.
C17_FetchRepeats ==
    \A user \in Identities :
       \A first, second \in get_messages(user) : first = second

\* The values a client can give for the `sender` query parameter and for
\* the `receiver` field: both are declared `str`, which the empty string
\* is.
SenderInputs == Identities \cup {""}

\* send_message under requests whose identities may be empty.
InputNext ==
    \/ \E i \in Sends, sender, receiver \in SenderInputs, content \in Contents :
          SendCreate(i, sender, receiver, content)
    \/ \E i \in Sends : InsertOne(i)
    \/ \E i \in Sends : InsertFails(i)
    \/ \E i \in Sends : Notify(i)
    \/ FetchNext

InputSpec == Init /\ [][InputNext]_vars

\* C18: a send whose sender or receiver is the empty string is rejected
\* with ValidationError and has no effect: its message is not in the store.
C18_EmptyIdentityRejected ==
    \A i \in Sends :
       (/\ send[i].pc # "idle"
        /\ send[i].msg.sender = "" \/ send[i].msg.receiver = "") =>
          /\ send[i].pc = "ValidationError"
          /\ \A d \in db_messages : d.id # send[i].msg.id

\* C19: no entry of the registry holds a connection whose handler has
\* reached Closed, and when every connection that was accepted has a
\* Closed handler the registry is empty.
C19_NoClosedRegistered ==
    /\ \A item \in active_connections : ws[item[2]].pc # "closed"
    /\ (\A c \in Chans : ws[c].pc \in {"idle", "closed"}) =>
          active_connections = {}

\* Two connections were accepted, for different identities, both handlers
\* have reached Closed and the registry is empty.
C19_Witness ==
    /\ \A c \in Chans : ws[c].pc = "closed"
    /\ \E a, b \in Chans : ws[a].user # ws[b].user
    /\ active_connections = {}

\* C20: however concurrent successful logins interleave, the users
\* collection holds at most one document for a username.
C20_OneUserPerName ==
    \A username \in Identities : db_users[username] <= 1

====
